---- MODULE Spec2Model ----
(***************************************************************************)
(* A model of the bread-recipes single-page application: the App          *)
(* component (recipe list, signed-in user, localStorage), the RecipeView  *)
(* editor (edited copy, baker's-percentage scaling), the RecipeImporter   *)
(* (asynchronous AI parse) and the validation in geminiService.           *)
(*                                                                         *)
(* JavaScript numbers are modelled by the exact rationals they            *)
(* approximate: a number is a pair <<n, d>> in lowest terms with d > 0,   *)
(* and NaN is <<0, 0>>.  An object is a record; a key the object does not *)
(* have is a field the record does not have.                              *)
(***************************************************************************)
EXTENDS Integers, Sequences, FiniteSets, TLC

VARIABLES
    view,            \* App: 'library' | 'recipe' | 'importer'
    recipes,         \* App: the in-memory recipe list
    selectedRecipe,  \* App: the recipe handed to RecipeView, or Null
    user,            \* App: the signed-in user's id, or NoUser
    storage,         \* localStorage: the items set, by the user id of their key
    editedRecipe,    \* RecipeView: the edited copy, Null while unmounted
    nutrition,       \* RecipeView: the nutrition result displayed, or Null
    nutritionError,  \* RecipeView: the nutrition error message, or NoError
    isNutritionLoading, \* RecipeView: the loading flag of the nutrition button
    nutritionPending,   \* RecipeView: nutrition requests in flight
    pending,         \* RecipeImporter: parse requests in flight, each with the closure it captured
    isLoading,       \* RecipeImporter: the loading flag
    error,           \* RecipeImporter: the error message, or NoError
    inputs,          \* the edits made and parse requests sent so far
    now,             \* the value Date.now() returned last
    lastCall         \* history: the handler that ran last, with its arguments

vars == <<view, recipes, selectedRecipe, user, storage, editedRecipe,
          nutrition, nutritionError, isNutritionLoading, nutritionPending,
          pending, isLoading, error, inputs, now, lastCall>>

appVars == <<view, recipes, selectedRecipe, user, storage>>
importerVars == <<pending, isLoading, error>>
nutritionVars == <<nutrition, nutritionError, isNutritionLoading, nutritionPending>>
viewVars == <<editedRecipe, nutritionVars>>

-----------------------------------------------------------------------------
(* Bounds of the model *)

\* edits made and parse requests sent in one run
MaxInputs == 2
\* the last clock value explored
MaxClock == 1

-----------------------------------------------------------------------------
(* JavaScript numbers *)

Null == [null |-> TRUE]
NoUser == "null"
NoError == "null"

Abs(i) == IF i < 0 THEN -i ELSE i

RECURSIVE GCD(_, _)
GCD(a, b) == IF b = 0 THEN a ELSE GCD(b, a % b)

\* the rational n/d (d # 0) in lowest terms, with a positive denominator
Rat(n, d) ==
    LET g == GCD(Abs(n), Abs(d))
        s == IF d < 0 THEN -1 ELSE 1
    IN  <<(s * n) \div g, (s * d) \div g>>

Num(i) == <<i, 1>>
NaN == <<0, 0>>
IsNaN(x) == x[2] = 0

\* a + b
JSAdd(a, b) ==
    IF IsNaN(a) \/ IsNaN(b) THEN NaN
    ELSE Rat(a[1] * b[2] + b[1] * a[2], a[2] * b[2])

\* a * b
JSMul(a, b) ==
    IF IsNaN(a) \/ IsNaN(b) THEN NaN
    ELSE Rat(a[1] * b[1], a[2] * b[2])

\* a / b; every divisor in the program is 100 or a sum already tested > 0
JSDiv(a, b) ==
    IF IsNaN(a) \/ IsNaN(b) \/ b[1] = 0 THEN NaN
    ELSE Rat(a[1] * b[2], a[2] * b[1])

\* a > 0, false for NaN
JSGtZero(a) == ~IsNaN(a) /\ a[1] > 0

\* a < 0, false for NaN
JSLtZero(a) == ~IsNaN(a) /\ a[1] < 0

\* Math.max(0, a)
MathMaxZero(a) == IF IsNaN(a) THEN NaN ELSE IF a[1] < 0 THEN Num(0) ELSE a

-----------------------------------------------------------------------------
(* Recipes *)

Ingredient(n, p) == [name |-> n, percentage |-> p]

Recipe(i, n, d, t, ings, std) ==
    [id |-> i, name |-> n, description |-> d, totalFlourGrams |-> t,
     ingredients |-> ings, isStandard |-> std]

standardRecipes == <<
    Recipe("std-1", "Artisanal Sourdough", "classic", Num(1000),
           << Ingredient("White Flour", Num(90)),
              Ingredient("Whole Wheat Flour", Num(10)),
              Ingredient("Water", Num(75)),
              Ingredient("Sourdough Levain", Num(20)),
              Ingredient("Salt", Rat(22, 10)) >>, TRUE),
    Recipe("std-2", "Hearty Rye Bread", "dense", Num(1000),
           << Ingredient("White Flour", Num(50)),
              Ingredient("Other Flour", Num(50)),
              Ingredient("Water", Num(80)),
              Ingredient("Sourdough Levain", Num(30)),
              Ingredient("Salt", Num(2)),
              Ingredient("Sugar / Honey / Malt", Num(3)) >>, TRUE),
    Recipe("std-3", "Soft Sandwich Sourdough", "soft", Num(900),
           << Ingredient("White Flour", Num(100)),
              Ingredient("Milk", Num(65)),
              Ingredient("Sourdough Levain", Num(25)),
              Ingredient("Salt", Num(2)),
              Ingredient("Sugar / Honey / Malt", Num(5)),
              Ingredient("Butter or Oil", Num(8)) >>, TRUE),
    Recipe("std-4", "Sourdough Pizza Base", "tangy", Num(500),
           << Ingredient("White Flour", Num(100)),
              Ingredient("Water", Num(68)),
              Ingredient("Sourdough Levain", Num(15)),
              Ingredient("Salt", Rat(25, 10)),
              Ingredient("Butter or Oil", Num(3)) >>, TRUE) >>

\* ing.percentage, NaN standing for the undefined of an absent key in arithmetic
percentageOf(ing) ==
    IF "percentage" \in DOMAIN ing THEN ing.percentage ELSE NaN

\* ingredients.reduce((acc, ing) => acc + ing.percentage, 0)
RECURSIVE sumPercentages(_)
sumPercentages(ings) ==
    IF ings = <<>> THEN Num(0)
    ELSE JSAdd(sumPercentages(SubSeq(ings, 1, Len(ings) - 1)),
               percentageOf(ings[Len(ings)]))

\* a number through JSON.stringify and JSON.parse: NaN is written as null, which
\* every later arithmetic use coerces to 0
jsonNumber(x) == IF IsNaN(x) THEN Num(0) ELSE x

jsonIngredient(ing) ==
    [k \in DOMAIN ing |->
        IF k = "percentage" THEN jsonNumber(ing[k]) ELSE ing[k]]

\* JSON.parse(JSON.stringify(recipe)): the keys present are kept
deepCopy(recipe) ==
    [recipe EXCEPT
        !.totalFlourGrams = jsonNumber(@),
        !.ingredients = [i \in 1..Len(@) |-> jsonIngredient(@[i])]]

-----------------------------------------------------------------------------
(* RecipeView: the computations and handlers, as functions of the recipe   *)
(* prop, the edited copy and the handler's arguments.  An index is the     *)
(* JavaScript (0-based) index; ingredients[index] is ings[index + 1] here. *)

DefaultDoughWeight == 1000

\* variant of scaledCopy that sets the flour to the default dough weight
copyWithDefaultFlour(recipe) ==
    LET newRecipe == deepCopy(recipe)
    IN  IF JSGtZero(sumPercentages(newRecipe.ingredients))
        THEN [newRecipe EXCEPT !.totalFlourGrams = Num(DefaultDoughWeight)]
        ELSE newRecipe

\* useEffect([recipe]): a deep copy of the prop, scaled to the default dough weight
scaledCopy(recipe) ==
    LET newRecipe == deepCopy(recipe)
        totalPercentage == sumPercentages(newRecipe.ingredients)
    IN  IF JSGtZero(totalPercentage)
        THEN [newRecipe EXCEPT !.totalFlourGrams =
                 JSMul(JSDiv(Num(DefaultDoughWeight), totalPercentage), Num(100))]
        ELSE newRecipe

isReadOnly(recipe) == recipe.isStandard

\* variant of totalDoughWeight that takes the percentages as fractions
totalDoughWeightOfFractions(edited) ==
    JSMul(sumPercentages(edited.ingredients), edited.totalFlourGrams)

\* useMemo: (totalPercentage / 100) * editedRecipe.totalFlourGrams
totalDoughWeight(edited) ==
    JSMul(JSDiv(sumPercentages(edited.ingredients), Num(100)), edited.totalFlourGrams)

\* getNutritionalInformation: grams: (ing.percentage / 100) * recipe.totalFlourGrams
ingredientsInGrams(recipe) ==
    [i \in 1..Len(recipe.ingredients) |->
        [name |-> IF "name" \in DOMAIN recipe.ingredients[i]
                  THEN recipe.ingredients[i].name ELSE "undefined",
         grams |-> JSMul(JSDiv(percentageOf(recipe.ingredients[i]), Num(100)),
                         recipe.totalFlourGrams)]]

RECURSIVE sumGrams(_)
sumGrams(gs) ==
    IF gs = <<>> THEN Num(0)
    ELSE JSAdd(sumGrams(SubSeq(gs, 1, Len(gs) - 1)), gs[Len(gs)].grams)

\* getNutritionalInformation: ingredientsInGrams.reduce((acc, ing) => acc + ing.grams, 0)
nutritionTotalDoughWeight(recipe) == sumGrams(ingredientsInGrams(recipe))

\* handleChange: field is the input's name attribute, 'name' or 'description'
handleChange(recipe, edited, field, value) ==
    IF isReadOnly(recipe) THEN edited
    ELSE [edited EXCEPT ![field] = value]

\* variant of handleTotalDoughWeightChange that takes the flour for the dough
flourChangeForDoughWeight(recipe, edited, value) ==
    IF isReadOnly(recipe) THEN edited
    ELSE IF JSGtZero(sumPercentages(edited.ingredients))
         THEN [edited EXCEPT !.totalFlourGrams = MathMaxZero(value)]
         ELSE edited

\* variant of handleTotalDoughWeightChange that scales by 100% when the
\* percentages do not sum to more than 0
doughWeightChangeUnguarded(recipe, edited, value) ==
    IF isReadOnly(recipe) THEN edited
    ELSE LET totalPercentage == sumPercentages(edited.ingredients)
             divisor == IF JSGtZero(totalPercentage) THEN totalPercentage ELSE Num(100)
         IN  [edited EXCEPT !.totalFlourGrams =
                 JSMul(JSDiv(MathMaxZero(value), divisor), Num(100))]

\* handleTotalDoughWeightChange: value is Number(e.target.value)
handleTotalDoughWeightChange(recipe, edited, value) ==
    IF isReadOnly(recipe) THEN edited
    ELSE LET newDoughWeight == MathMaxZero(value)
             totalPercentage == sumPercentages(edited.ingredients)
         IN  IF JSGtZero(totalPercentage)
             THEN [edited EXCEPT !.totalFlourGrams =
                      JSMul(JSDiv(newDoughWeight, totalPercentage), Num(100))]
             ELSE edited

\* { ...newIngredients[index] } with the field assigned; out of range the spread of
\* undefined is the empty object
changedIngredient(ings, index, field, value) ==
    LET old == IF index >= 0 /\ index < Len(ings) THEN ings[index + 1] ELSE <<>>
        new == IF field = "percentage" THEN MathMaxZero(value) ELSE value
    IN  [k \in DOMAIN old \cup {field} |-> IF k = field THEN new ELSE old[k]]

\* newIngredients[index] = newIngredient on the copied array: an element is replaced,
\* index = length appends, and a negative index sets a property that is no element.
\* (An index past the length would leave holes; the inputs explored stop at the length.)
assignAt(ings, index, ing) ==
    CASE index < 0 -> ings
      [] index < Len(ings) -> [ings EXCEPT ![index + 1] = ing]
      [] index = Len(ings) -> Append(ings, ing)

\* handleIngredientChange: field is 'percentage' (value is Number(value)) or 'name'
handleIngredientChange(recipe, edited, index, field, value) ==
    IF isReadOnly(recipe) THEN edited
    ELSE [edited EXCEPT !.ingredients =
             assignAt(@, index, changedIngredient(@, index, field, value))]

\* addIngredient
addIngredient(recipe, edited) ==
    IF isReadOnly(recipe) THEN edited
    ELSE [edited EXCEPT !.ingredients = Append(@, Ingredient("Water", Num(0)))]

\* prev.ingredients.filter((_, i) => i !== index)
RECURSIVE filterIndex(_, _)
filterIndex(ings, index) ==
    IF ings = <<>> THEN <<>>
    ELSE LET rest == filterIndex(SubSeq(ings, 1, Len(ings) - 1), index)
         IN  IF Len(ings) - 1 # index THEN Append(rest, ings[Len(ings)]) ELSE rest

\* variant of removeIngredient without the read-only test
removeIngredientOfAny(recipe, edited, index) ==
    [edited EXCEPT !.ingredients = filterIndex(@, index)]

\* removeIngredient
removeIngredient(recipe, edited, index) ==
    IF isReadOnly(recipe) THEN edited
    ELSE [edited EXCEPT !.ingredients = filterIndex(@, index)]

-----------------------------------------------------------------------------
(* geminiService: the decoded response of the model and its validation    *)

\* a JSON value with its typeof / Array.isArray tag
JNumber(x) == [type |-> "number", number |-> x, string |-> "", array |-> <<>>]
JString(x) == [type |-> "string", number |-> Num(0), string |-> x, array |-> <<>>]
JArray(x) == [type |-> "array", number |-> Num(0), string |-> "", array |-> x]

\* the request failed, or response.text is not JSON
NetworkFailure == [kind |-> "failure"]
NotJSON == [kind |-> "notjson"]
\* response.text is the JSON of an object with these four keys
JObject(n, d, t, ings) ==
    [kind |-> "object", name |-> n, description |-> d, totalFlourGrams |-> t,
     ingredients |-> ings]

ParseFailed ==
    [ok |-> FALSE,
     message |-> "Failed to parse recipe. The AI model could not understand the provided text or an API error occurred. Please try again with a clearer recipe format."]

\* parseRecipeFromText: the value the promise resolves to, or the error it rejects with
parseRecipeFromText(response) ==
    IF response.kind # "object" THEN ParseFailed
    ELSE IF \/ response.name = ""
            \/ response.totalFlourGrams.type # "number"
            \/ response.ingredients.type # "array"
         THEN ParseFailed
         ELSE [ok |-> TRUE,
               recipe |-> [name |-> response.name,
                           description |-> response.description,
                           totalFlourGrams |-> response.totalFlourGrams.number,
                           ingredients |-> response.ingredients.array]]

-----------------------------------------------------------------------------
(* App: the recipe list, the user and localStorage                         *)

\* lastCall: the handler's name and its arguments, each in the field of its type
NoData == [kind |-> "none"]
NoCall ==
    [op |-> "none", index |-> 0, field |-> "", text |-> "", number |-> Num(0),
     data |-> NoData]
Call(op) == [NoCall EXCEPT !.op = op]

Users == {"A", "B"}

\* `user-${Date.now()}`
userRecipeId(t) == "user-" \o ToString(t)

\* JSON.stringify(userRecipes) and the JSON.parse that reads it back
storedRecipes(userRecipes) == [i \in 1..Len(userRecipes) |-> deepCopy(userRecipes[i])]

\* newRecipes.filter(r => !r.isStandard)
userRecipesOf(list) == SelectSeq(list, LAMBDA r : ~r.isStandard)

\* localStorage.getItem(`userRecipes-${u}`), parsed; [] when there is no item
getUserRecipes(u, st) == IF u \in DOMAIN st THEN st[u] ELSE <<>>

\* variant of recipesFor that lists the user's recipes first
recipesForUserFirst(u, st) ==
    IF u # NoUser
    THEN getUserRecipes(u, st) \o standardRecipes
    ELSE standardRecipes

\* useEffect([user]): the list shown for the user
recipesFor(u, st) ==
    IF u # NoUser
    THEN standardRecipes \o getUserRecipes(u, st)
    ELSE standardRecipes

\* variant of saveUserRecipes that adds to what is stored
saveUserRecipesAppending(userRecipes, currentUser, st) ==
    IF currentUser = NoUser THEN st
    ELSE [k \in DOMAIN st \cup {currentUser} |->
             IF k = currentUser
             THEN getUserRecipes(k, st) \o storedRecipes(userRecipes)
             ELSE st[k]]

\* saveUserRecipes: localStorage after the call
saveUserRecipes(userRecipes, currentUser, st) ==
    IF currentUser = NoUser THEN st
    ELSE [k \in DOMAIN st \cup {currentUser} |->
             IF k = currentUser THEN storedRecipes(userRecipes) ELSE st[k]]

\* recipes.map(r => r.id === updatedRecipe.id ? updatedRecipe : r)
replaceById(list, updatedRecipe) ==
    [i \in 1..Len(list) |-> IF list[i].id = updatedRecipe.id THEN updatedRecipe ELSE list[i]]

\* recipes.filter(r => r.id !== recipeId)
removeById(list, recipeId) == SelectSeq(list, LAMBDA r : r.id # recipeId)

\* RecipeView is mounted on, or handed, the recipe: its effect runs
\* (the effect also clears the nutrition result and error; a RecipeView already
\* mounted keeps its loading flag and stays the component of its requests)
ViewShows(recipe) ==
    /\ editedRecipe' = scaledCopy(recipe)
    /\ nutrition' = Null
    /\ nutritionError' = NoError
    /\ isNutritionLoading' =
           IF view = "recipe" /\ editedRecipe # Null THEN isNutritionLoading ELSE FALSE
    /\ nutritionPending' = nutritionPending

\* RecipeView unmounts: its state is dropped and its requests lose their component
ViewGone ==
    /\ editedRecipe' = Null
    /\ nutrition' = Null
    /\ nutritionError' = NoError
    /\ isNutritionLoading' = FALSE
    /\ nutritionPending' =
           [i \in 1..Len(nutritionPending) |-> [nutritionPending[i] EXCEPT !.mounted = FALSE]]

\* RecipeImporter unmounts: its state is dropped and its requests lose their component
ImporterGone ==
    /\ isLoading' = FALSE
    /\ error' = NoError
    /\ pending' = [i \in 1..Len(pending) |-> [pending[i] EXCEPT !.mounted = FALSE]]

\* handleCredentialResponse, then useEffect([user])
handleCredentialResponse(u) ==
    /\ user = NoUser
    /\ lastCall' = [Call("handleCredentialResponse") EXCEPT !.text = u]
    /\ user' = u
    /\ recipes' = recipesFor(u, storage)
    /\ UNCHANGED <<view, selectedRecipe, storage, viewVars, importerVars, inputs, now>>

\* handleLogout, then useEffect([user])
handleLogout ==
    /\ user # NoUser
    /\ lastCall' = Call("handleLogout")
    /\ user' = NoUser
    /\ recipes' = recipesFor(NoUser, storage)
    /\ UNCHANGED <<view, selectedRecipe, storage, viewVars, importerVars, inputs, now>>

\* handleSelectRecipe
handleSelectRecipe(recipe) ==
    /\ view = "library"
    /\ lastCall' = [Call("handleSelectRecipe") EXCEPT !.data = recipe]
    /\ selectedRecipe' = recipe
    /\ view' = "recipe"
    /\ ViewShows(recipe)
    /\ UNCHANGED <<recipes, user, storage, importerVars, inputs, now>>

\* handleBackToLibrary, from the recipe view or the importer
handleBackToLibrary ==
    /\ view # "library"
    /\ lastCall' = Call("handleBackToLibrary")
    /\ selectedRecipe' = Null
    /\ view' = "library"
    /\ ViewGone
    /\ ImporterGone
    /\ UNCHANGED <<recipes, user, storage, inputs, now>>

\* the '+ Import Recipe (AI)' button, rendered while a user is signed in
openImporter ==
    /\ view = "library"
    /\ user # NoUser
    /\ lastCall' = Call("openImporter")
    /\ view' = "importer"
    /\ UNCHANGED <<recipes, selectedRecipe, user, storage, viewVars, importerVars, inputs, now>>

\* handleSaveRecipe
handleSaveRecipe(updatedRecipe) ==
    /\ lastCall' = [Call("handleSaveRecipe") EXCEPT !.data = updatedRecipe]
    /\ IF user = NoUser
       THEN UNCHANGED <<appVars, viewVars, importerVars, inputs, now>>
       ELSE LET newRecipes == replaceById(recipes, updatedRecipe)
            IN  /\ recipes' = newRecipes
                /\ storage' = saveUserRecipes(userRecipesOf(newRecipes), user, storage)
                /\ UNCHANGED <<view, selectedRecipe, user, viewVars, importerVars, inputs, now>>

\* handleDeleteRecipe
handleDeleteRecipe(recipeId) ==
    /\ lastCall' = [Call("handleDeleteRecipe") EXCEPT !.text = recipeId]
    /\ IF user = NoUser
       THEN UNCHANGED <<appVars, viewVars, importerVars, inputs, now>>
       ELSE LET newRecipes == removeById(recipes, recipeId)
            IN  /\ recipes' = newRecipes
                /\ storage' = saveUserRecipes(userRecipesOf(newRecipes), user, storage)
                /\ selectedRecipe' = Null
                /\ view' = "library"
                /\ ViewGone
                /\ ImporterGone
                /\ UNCHANGED <<user, inputs, now>>

\* handleImportSuccess as defined in the render whose user and recipes are
\* closureUser and closureRecipes, Date.now() returning t; what it leaves of
\* isLoading, error and pending is the caller's
handleImportSuccess(importedRecipeData, closureUser, closureRecipes, t) ==
    IF closureUser = NoUser
    THEN UNCHANGED <<appVars, viewVars, now>>
    ELSE LET newRecipe ==
                 [id |-> userRecipeId(t),
                  name |-> importedRecipeData.name,
                  description |-> importedRecipeData.description,
                  totalFlourGrams |-> importedRecipeData.totalFlourGrams,
                  ingredients |-> importedRecipeData.ingredients,
                  isStandard |-> FALSE]
             newRecipes == Append(closureRecipes, newRecipe)
         IN  /\ recipes' = newRecipes
             /\ storage' = saveUserRecipes(userRecipesOf(newRecipes), closureUser, storage)
             /\ selectedRecipe' = newRecipe
             /\ view' = "recipe"
             /\ ViewShows(newRecipe)
             /\ now' = t
             /\ UNCHANGED user

-----------------------------------------------------------------------------
(* RecipeView: the handlers as steps of the mounted component              *)

\* JSON.stringify(recipe) !== JSON.stringify(editedRecipe)
hasChanges == deepCopy(selectedRecipe) # deepCopy(editedRecipe)

ViewMounted == view = "recipe" /\ editedRecipe # Null

onChange(field, value) ==
    /\ ViewMounted
    /\ inputs < MaxInputs
    /\ lastCall' = [Call("handleChange") EXCEPT !.field = field, !.text = value]
    /\ editedRecipe' = handleChange(selectedRecipe, editedRecipe, field, value)
    /\ inputs' = inputs + 1
    /\ UNCHANGED <<appVars, nutritionVars, importerVars, now>>

onTotalDoughWeightChange(value) ==
    /\ ViewMounted
    /\ inputs < MaxInputs
    /\ lastCall' = [Call("handleTotalDoughWeightChange") EXCEPT !.number = value]
    /\ editedRecipe' = handleTotalDoughWeightChange(selectedRecipe, editedRecipe, value)
    /\ inputs' = inputs + 1
    /\ UNCHANGED <<appVars, nutritionVars, importerVars, now>>

onPercentageChange(index, value) ==
    /\ ViewMounted
    /\ inputs < MaxInputs
    /\ lastCall' = [Call("handleIngredientChange") EXCEPT
                       !.index = index, !.field = "percentage", !.number = value]
    /\ editedRecipe' =
           handleIngredientChange(selectedRecipe, editedRecipe, index, "percentage", value)
    /\ inputs' = inputs + 1
    /\ UNCHANGED <<appVars, nutritionVars, importerVars, now>>

onNameChange(index, value) ==
    /\ ViewMounted
    /\ inputs < MaxInputs
    /\ lastCall' = [Call("handleIngredientChange") EXCEPT
                       !.index = index, !.field = "name", !.text = value]
    /\ editedRecipe' =
           handleIngredientChange(selectedRecipe, editedRecipe, index, "name", value)
    /\ inputs' = inputs + 1
    /\ UNCHANGED <<appVars, nutritionVars, importerVars, now>>

onAddIngredient ==
    /\ ViewMounted
    /\ inputs < MaxInputs
    /\ lastCall' = Call("addIngredient")
    /\ editedRecipe' = addIngredient(selectedRecipe, editedRecipe)
    /\ inputs' = inputs + 1
    /\ UNCHANGED <<appVars, nutritionVars, importerVars, now>>

onRemoveIngredient(index) ==
    /\ ViewMounted
    /\ inputs < MaxInputs
    /\ lastCall' = [Call("removeIngredient") EXCEPT !.index = index]
    /\ editedRecipe' = removeIngredient(selectedRecipe, editedRecipe, index)
    /\ inputs' = inputs + 1
    /\ UNCHANGED <<appVars, nutritionVars, importerVars, now>>

\* getNutritionalInformation: the information the model returns for the recipe sent
NutritionInfo(recipe) ==
    [recipe |-> recipe, totalDoughWeight |-> nutritionTotalDoughWeight(recipe)]

NutritionFailed ==
    "Failed to calculate nutrition. The AI model could not process the recipe or an API error occurred."

withoutNutritionRequest(i) ==
    [j \in 1..(Len(nutritionPending) - 1) |->
        IF j < i THEN nutritionPending[j] ELSE nutritionPending[j + 1]]

\* handleCalculateNutrition up to the await: editedRecipe is sent
handleCalculateNutrition ==
    /\ ViewMounted
    /\ ~isNutritionLoading
    /\ inputs < MaxInputs
    /\ inputs' = inputs + 1
    /\ lastCall' = [Call("handleCalculateNutrition") EXCEPT !.data = editedRecipe]
    /\ isNutritionLoading' = TRUE
    /\ nutritionError' = NoError
    /\ nutrition' = Null
    /\ nutritionPending' = Append(nutritionPending,
           [shown |-> selectedRecipe, recipe |-> editedRecipe, mounted |-> TRUE])
    /\ UNCHANGED <<appVars, editedRecipe, importerVars, now>>

\* handleCalculateNutrition from the await on: request i resolves (ok) or rejects
nutritionSettles(i, ok) ==
    LET request == nutritionPending[i]
    IN  /\ lastCall' = [Call("nutritionSettles") EXCEPT
                           !.index = i,
                           !.text = IF ok THEN "resolved" ELSE "rejected",
                           !.data = request.shown]
        /\ nutritionPending' = withoutNutritionRequest(i)
        /\ IF request.mounted
           THEN /\ nutrition' = IF ok THEN NutritionInfo(request.recipe) ELSE nutrition
                /\ nutritionError' = IF ok THEN nutritionError ELSE NutritionFailed
                /\ isNutritionLoading' = FALSE
           ELSE UNCHANGED <<nutrition, nutritionError, isNutritionLoading>>
        /\ UNCHANGED <<appVars, editedRecipe, importerVars, inputs, now>>

\* handleSave: onSave(editedRecipe)
handleSave ==
    /\ ViewMounted
    /\ handleSaveRecipe(editedRecipe)

\* handleDelete, the confirmation accepted: onDelete(recipe.id)
handleDelete ==
    /\ ViewMounted
    /\ handleDeleteRecipe(selectedRecipe.id)

-----------------------------------------------------------------------------
(* RecipeImporter                                                          *)

\* text.trim()
trim(text) == IF text = " " THEN "" ELSE text

withoutRequest(i) == [j \in 1..(Len(pending) - 1) |-> IF j < i THEN pending[j] ELSE pending[j + 1]]

\* handleImport up to the await: the request captures the onImportSuccess of this render
handleImport(text) ==
    /\ view = "importer"
    /\ ~isLoading
    /\ lastCall' = [Call("handleImport") EXCEPT !.text = text]
    /\ IF trim(text) = ""
       THEN /\ error' = "Please paste recipe text."
            /\ UNCHANGED <<pending, isLoading, inputs>>
       ELSE /\ inputs < MaxInputs
            /\ inputs' = inputs + 1
            /\ error' = NoError
            /\ isLoading' = TRUE
            /\ pending' = Append(pending,
                   [user |-> user, recipes |-> recipes, mounted |-> TRUE])
    /\ UNCHANGED <<appVars, viewVars, now>>

\* handleImport from the await on: the response of request i arrives, at a time t
\* not before the last clock reading
importSettles(i, response, t) ==
    LET request == pending[i]
        result == parseRecipeFromText(response)
    IN  /\ lastCall' = [Call("importSettles") EXCEPT
                           !.index = i,
                           !.text = IF result.ok THEN "resolved" ELSE "rejected"]
        /\ UNCHANGED inputs
        /\ IF result.ok
           THEN /\ handleImportSuccess(result.recipe, request.user, request.recipes, t)
                /\ IF request.user = NoUser
                   THEN /\ pending' = withoutRequest(i)
                        /\ isLoading' = IF request.mounted THEN FALSE ELSE isLoading
                        /\ error' = error
                   ELSE /\ pending' = [j \in 1..(Len(pending) - 1) |->
                                          [withoutRequest(i)[j] EXCEPT !.mounted = FALSE]]
                        /\ isLoading' = FALSE
                        /\ error' = NoError
           ELSE /\ pending' = withoutRequest(i)
                /\ isLoading' = IF request.mounted THEN FALSE ELSE isLoading
                /\ error' = IF request.mounted THEN result.message ELSE error
                /\ UNCHANGED <<appVars, viewVars, now>>

-----------------------------------------------------------------------------
(* The inputs explored *)

ChangeFields == {"name", "description"}
ChangeValues == {"", "Rye"}
DoughWeightInputs == {Num(-1), Num(0), Num(835), Num(1670)}
PercentageInputs == {Num(-5), Num(50)}
NameInputs == {"Salt"}
TextInputs == {"", " ", "900g flour, 750g water"}

FlourAndWater == <<Ingredient("White Flour", Num(100)), Ingredient("Water", Num(75))>>
NegativeWater == <<Ingredient("White Flour", Num(100)), Ingredient("Water", Num(-5))>>

\* what the model may answer to a parse request
Responses ==
    { NetworkFailure, NotJSON,
      JObject("Loaf", "imported", JNumber(Num(1000)), JArray(FlourAndWater)),
      JObject("", "imported", JNumber(Num(1000)), JArray(FlourAndWater)),
      JObject("Loaf", "imported", JNumber(Num(0)), JArray(FlourAndWater)),
      JObject("Loaf", "imported", JString("1kg"), JArray(FlourAndWater)),
      JObject("Loaf", "imported", JNumber(Num(1000)), JArray(NegativeWater)),
      JObject("Loaf", "imported", JNumber(Num(1000)), JArray(<<>>)),
      JObject("Loaf", "imported", JNumber(Num(1000)), JString("none")) }

-----------------------------------------------------------------------------
(* Spec: the application as its rendered controls drive it                 *)

Init ==
    /\ view = "library"
    /\ recipes = standardRecipes
    /\ selectedRecipe = Null
    /\ user = NoUser
    /\ storage = [k \in {} |-> <<>>]
    /\ editedRecipe = Null
    /\ nutrition = Null
    /\ nutritionError = NoError
    /\ isNutritionLoading = FALSE
    /\ nutritionPending = <<>>
    /\ pending = <<>>
    /\ isLoading = FALSE
    /\ error = NoError
    /\ inputs = 0
    /\ now = 0
    /\ lastCall = NoCall

\* the inputs, selects and buttons RecipeView renders or enables only when !isReadOnly
Editable == ViewMounted /\ ~isReadOnly(selectedRecipe)

signIn == \E u \in Users : handleCredentialResponse(u)
signOut == handleLogout
selectRecipe == \E i \in 1..Len(recipes) : handleSelectRecipe(recipes[i])
back == handleBackToLibrary
editField == Editable /\ \E f \in ChangeFields : onChange(f, "Rye")
editDoughWeight == Editable /\ \E v \in {Num(-1), Num(835)} : onTotalDoughWeightChange(v)
editPercentage ==
    /\ Editable
    /\ \E i \in 0..(Len(editedRecipe.ingredients) - 1), v \in PercentageInputs :
           onPercentageChange(i, v)
editName ==
    /\ Editable
    /\ \E i \in 0..(Len(editedRecipe.ingredients) - 1), v \in NameInputs :
           onNameChange(i, v)
clickAdd == Editable /\ onAddIngredient
clickRemove ==
    /\ Editable
    /\ \E i \in 0..(Len(editedRecipe.ingredients) - 1) : onRemoveIngredient(i)
clickSave == Editable /\ hasChanges /\ handleSave
clickDelete == Editable /\ handleDelete
clickImport == \E t \in TextInputs : handleImport(t)
clickNutrition == handleCalculateNutrition
nutritionResponse ==
    \E i \in 1..Len(nutritionPending), ok \in BOOLEAN : nutritionSettles(i, ok)
response ==
    \E i \in 1..Len(pending), r \in Responses, t \in now..MaxClock : importSettles(i, r, t)

Next ==
    \/ signIn
    \/ signOut
    \/ selectRecipe
    \/ back
    \/ openImporter
    \/ editField
    \/ editDoughWeight
    \/ editPercentage
    \/ editName
    \/ clickAdd
    \/ clickRemove
    \/ clickSave
    \/ clickDelete
    \/ clickImport
    \/ response
    \/ clickNutrition
    \/ nutritionResponse

Spec == Init /\ [][Next]_vars

-----------------------------------------------------------------------------
(* SpecView: RecipeView mounted on a recipe, its handlers called with any  *)
(* arguments                                                               *)

ScenarioIngredients ==
    <<Ingredient("White Flour", Num(90)), Ingredient("Water", Num(75)),
      Ingredient("Salt", Num(2))>>

\* the recipes RecipeView is mounted on
ViewProps ==
    { standardRecipes[i] : i \in 1..Len(standardRecipes) } \cup
    { Recipe("user-0", "Country Loaf", "scenario", Num(1000), ScenarioIngredients, FALSE),
      Recipe("user-1", "Blank", "no ingredients", Num(1000), <<>>, FALSE),
      Recipe("user-2", "Water", "percentages of 0", Num(500),
             <<Ingredient("Water", Num(0))>>, FALSE),
      Recipe("user-3", "Loaf", "imported", Num(0), NegativeWater, FALSE) }

InitView ==
    /\ view = "recipe"
    /\ recipes = standardRecipes
    /\ selectedRecipe \in ViewProps
    /\ user = NoUser
    /\ storage = [k \in {} |-> <<>>]
    /\ editedRecipe = scaledCopy(selectedRecipe)
    /\ nutrition = Null
    /\ nutritionError = NoError
    /\ isNutritionLoading = FALSE
    /\ nutritionPending = <<>>
    /\ pending = <<>>
    /\ isLoading = FALSE
    /\ error = NoError
    /\ inputs = 0
    /\ now = 0
    /\ lastCall = NoCall

\* the indexes explored: in range, -1 and the length
AnyIndex == -1..Len(editedRecipe.ingredients)

callChange == \E f \in ChangeFields, v \in ChangeValues : onChange(f, v)
callTotalDoughWeightChange == \E v \in DoughWeightInputs : onTotalDoughWeightChange(v)
callPercentageChange ==
    /\ ViewMounted
    /\ \E i \in AnyIndex, v \in PercentageInputs : onPercentageChange(i, v)
callNameChange ==
    /\ ViewMounted
    /\ \E i \in AnyIndex, v \in NameInputs : onNameChange(i, v)
callAddIngredient == onAddIngredient
callRemoveIngredient ==
    /\ ViewMounted
    /\ \E i \in AnyIndex : onRemoveIngredient(i)

NextView ==
    \/ callChange
    \/ callTotalDoughWeightChange
    \/ callPercentageChange
    \/ callNameChange
    \/ callAddIngredient
    \/ callRemoveIngredient

SpecView == InitView /\ [][NextView]_vars

-----------------------------------------------------------------------------
(* SpecStore: the App's store handlers called with any arguments           *)

\* what a parse may resolve to
ImportedData ==
    { parseRecipeFromText(r).recipe : r \in { x \in Responses : parseRecipeFromText(x).ok } }

\* the recipes of the list that are not standard
ownRecipes == { recipes[i] : i \in { j \in 1..Len(recipes) : ~recipes[j].isStandard } }

SaveArguments ==
    { scaledCopy(r) : r \in ownRecipes } \cup
    { standardRecipes[1], scaledCopy(standardRecipes[1]),
      Recipe("user-9", "Stray", "in no list", Num(1000), FlourAndWater, FALSE) }

DeleteArguments == { r.id : r \in ownRecipes } \cup {"std-1", "user-9"}

\* onImportSuccess of the current render, called with the clock at t
callImportSuccess ==
    /\ inputs < MaxInputs
    /\ inputs' = inputs + 1
    /\ \E data \in ImportedData, t \in now..MaxClock :
          /\ lastCall' = [Call("handleImportSuccess") EXCEPT !.data = data]
          /\ handleImportSuccess(data, user, recipes, t)
    /\ UNCHANGED importerVars

callSave == \E r \in SaveArguments : handleSaveRecipe(r)
callDelete == \E id \in DeleteArguments : handleDeleteRecipe(id)

NextStore ==
    \/ signIn
    \/ signOut
    \/ callImportSuccess
    \/ callSave
    \/ callDelete

SpecStore == Init /\ [][NextStore]_vars

-----------------------------------------------------------------------------
(* The recipe view's computations and handlers (SpecView)                  *)

percentages(ings) == [i \in 1..Len(ings) |-> percentageOf(ings[i])]

Editing(op) == lastCall'.op = op /\ ~isReadOnly(selectedRecipe)

\* C1: the total dough weight the view shows is the one the nutrition request
\* sums up from the ingredients' grams, it is (sum of percentages / 100) *
\* totalFlourGrams (that is, weight * 100 = sum * flour), it is 0 for an empty
\* ingredient list and 1670 for 1000 g of flour with percentages 90, 75, 2.
\* Numbers are exact rationals here; rounding of doubles is not modelled.
C1_TotalDoughWeight ==
    ViewMounted =>
        LET w == totalDoughWeight(editedRecipe)
            s == sumPercentages(editedRecipe.ingredients)
            t == editedRecipe.totalFlourGrams
        IN  /\ w = nutritionTotalDoughWeight(editedRecipe)
            /\ IsNaN(w) <=> IsNaN(s)
            /\ JSMul(w, Num(100)) = JSMul(s, t)
            /\ editedRecipe.ingredients = <<>> => w = Num(0)
            /\ (t = Num(1000) /\ percentages(editedRecipe.ingredients)
                                    = <<Num(90), Num(75), Num(2)>>) => w = Num(1670)

\* 1000 g of flour with percentages 90, 75, 2 is shown
C1_Witness ==
    /\ ViewMounted
    /\ editedRecipe.totalFlourGrams = Num(1000)
    /\ editedRecipe.ingredients = ScenarioIngredients
    /\ nutritionTotalDoughWeight(editedRecipe) = Num(1670)

\* C2: on an editable recipe whose percentages sum to more than 0,
\* handleTotalDoughWeightChange with d >= 0 yields a recipe whose total dough
\* weight is d and whose ingredients are unchanged; percentages 90, 75, 2 with
\* d = 835 give 500 g of flour and 375 g of water.
C2_RescaleToDoughWeight ==
    [][(/\ Editing("handleTotalDoughWeightChange")
        /\ JSGtZero(sumPercentages(editedRecipe.ingredients))
        /\ ~JSLtZero(lastCall'.number))
       => /\ totalDoughWeight(editedRecipe') = lastCall'.number
          /\ nutritionTotalDoughWeight(editedRecipe') = lastCall'.number
          /\ editedRecipe'.ingredients = editedRecipe.ingredients
          /\ (/\ editedRecipe.ingredients = ScenarioIngredients
              /\ lastCall'.number = Num(835))
             => /\ editedRecipe'.totalFlourGrams = Num(500)
                /\ ingredientsInGrams(editedRecipe')[2] = [name |-> "Water", grams |-> Num(375)]
      ]_vars

\* the scenario recipe has been rescaled to 835 g
C2_Witness ==
    /\ ViewMounted
    /\ lastCall.op = "handleTotalDoughWeightChange"
    /\ lastCall.number = Num(835)
    /\ ~isReadOnly(selectedRecipe)
    /\ editedRecipe.ingredients = ScenarioIngredients
    /\ editedRecipe.totalFlourGrams = Num(500)

\* C3: when the percentages sum to 0 (an empty ingredient list included),
\* handleTotalDoughWeightChange leaves the edited recipe as it is, whatever
\* the value.
C3_ZeroSumIsNoOp ==
    [][(/\ Editing("handleTotalDoughWeightChange")
        /\ sumPercentages(editedRecipe.ingredients) = Num(0))
       => editedRecipe' = editedRecipe
      ]_vars

\* a positive dough weight has been asked of a recipe with one ingredient of 0%
C3_Witness ==
    /\ ViewMounted
    /\ lastCall.op = "handleTotalDoughWeightChange"
    /\ JSGtZero(lastCall.number)
    /\ ~isReadOnly(selectedRecipe)
    /\ Len(editedRecipe.ingredients) = 1
    /\ sumPercentages(editedRecipe.ingredients) = Num(0)

ViewHandlers ==
    {"handleChange", "handleTotalDoughWeightChange", "handleIngredientChange",
     "addIngredient", "removeIngredient"}

\* C4: on a recipe with isStandard true every handler of the view (field,
\* dough weight, ingredient percentage or name, add, remove) leaves the edited
\* recipe unchanged, whatever its arguments and whatever was called before.
C4_StandardIsReadOnly ==
    [][(lastCall'.op \in ViewHandlers /\ selectedRecipe # Null /\ selectedRecipe.isStandard)
       => editedRecipe' = editedRecipe
      ]_vars

\* a second call on a standard recipe has removed the ingredient at index 0
C4_Witness ==
    /\ ViewMounted
    /\ selectedRecipe.isStandard
    /\ inputs = MaxInputs
    /\ lastCall.op = "removeIngredient"
    /\ lastCall.index = 0
    /\ editedRecipe = scaledCopy(selectedRecipe)

OutOfRange(index, ings) == index < 0 \/ index >= Len(ings)

\* C5: on an editable recipe, setting a percentage or removing an ingredient
\* at an index < 0 or >= the number of ingredients leaves the ingredient
\* sequence unchanged.  (The code has no IndexOutOfRange failure to observe.)
C5_IndexOutOfRange ==
    [][(/\ \/ Editing("removeIngredient")
           \/ Editing("handleIngredientChange") /\ lastCall'.field = "percentage"
        /\ OutOfRange(lastCall'.index, editedRecipe.ingredients))
       => editedRecipe'.ingredients = editedRecipe.ingredients
      ]_vars

-----------------------------------------------------------------------------
(* Import, the recipe list and localStorage (Spec, SpecStore)              *)

\* what the validation contract accepts of an imported recipe
ValidImport(r) ==
    /\ r.name # ""
    /\ JSGtZero(r.totalFlourGrams)
    /\ \A i \in 1..Len(r.ingredients) : ~JSLtZero(percentageOf(r.ingredients[i]))

\* C6: parseRecipeFromText rejects an output with an empty name, a
\* totalFlourGrams that is not a positive number, ingredients that are no
\* sequence or an ingredient with a negative percentage: whenever a parse
\* resolves and its recipe is added to the list, the recipe added has a name,
\* a positive totalFlourGrams and no negative percentage.
C6_ParseRejectsInvalid ==
    [][(/\ lastCall'.op = "importSettles"
        /\ lastCall'.text = "resolved"
        /\ pending[lastCall'.index].user # NoUser)
       => ValidImport(recipes'[Len(recipes')])
      ]_vars

StoreHandlers == {"handleSaveRecipe", "handleDeleteRecipe", "importSettles"}

\* C7: while no user is signed in, save, delete and import success leave the
\* recipe list unchanged and write nothing to localStorage.
C7_SignedOutIsNoOp ==
    [][(lastCall'.op \in StoreHandlers /\ user = NoUser)
       => (recipes' = recipes /\ storage' = storage)
      ]_vars

\* C8: the recipe list is always the four standard recipes, unmodified and in
\* their order, followed only by recipes with isStandard false.
C8_StandardRecipesFirst ==
    /\ Len(recipes) >= Len(standardRecipes)
    /\ SubSeq(recipes, 1, Len(standardRecipes)) = standardRecipes
    /\ \A i \in (Len(standardRecipes) + 1)..Len(recipes) : ~recipes[i].isStandard

\* a signed-in user has saved an edit of the one recipe after the standard four
C8_Witness ==
    /\ user # NoUser
    /\ lastCall.op = "handleSaveRecipe"
    /\ Len(recipes) = Len(standardRecipes) + 1
    /\ recipes[Len(recipes)] = lastCall.data
    /\ getUserRecipes(user, storage) = <<storedRecipes(<<lastCall.data>>)[1]>>

StandardIds == { standardRecipes[i].id : i \in 1..Len(standardRecipes) }

\* C9: a signed-in user's handleSaveRecipe with a recipe whose isStandard is
\* true, or handleDeleteRecipe with the id of a standard recipe, leaves the
\* recipe list and the user's persisted recipes unchanged.
C9_StoreRejectsStandard ==
    [][(/\ user # NoUser
        /\ \/ lastCall'.op = "handleSaveRecipe" /\ lastCall'.data.isStandard
           \/ lastCall'.op = "handleDeleteRecipe" /\ lastCall'.text \in StandardIds)
       => /\ recipes' = recipes
          /\ getUserRecipes(user, storage') = getUserRecipes(user, storage)
      ]_vars

\* C10: handleDeleteRecipe with an id that none of the signed-in user's
\* persisted recipes has leaves that user's persisted recipes the same.
C10_DeleteAbsentKeepsSet ==
    [][(/\ user # NoUser
        /\ lastCall'.op = "handleDeleteRecipe"
        /\ \A i \in 1..Len(getUserRecipes(user, storage)) :
               getUserRecipes(user, storage)[i].id # lastCall'.text)
       => getUserRecipes(user, storage') = getUserRecipes(user, storage)
      ]_vars

\* localStorage.setItem has been called under u's key with a new value
Written(u) == u \in DOMAIN storage' /\ (u \in DOMAIN storage => storage'[u] # storage[u])

\* C11: whatever the sequence of sign-in, sign-out, save, delete and import
\* steps, and whenever the response of an import arrives, the recipes persisted
\* under a user's key are written only while that user is the one signed in.
C11_WrittenOnlyBySignedIn ==
    [][\A u \in Users : Written(u) => user = u]_vars

\* the user a handler of the store runs for: the signed-in user, and for a
\* settling import the user of the render that sent the request
HandlerUser == IF lastCall'.op = "importSettles" THEN pending[lastCall'.index].user ELSE user

StoreChanged ==
    /\ lastCall'.op \in StoreHandlers
    /\ lastCall'.op = "importSettles" => lastCall'.text = "resolved"
    /\ HandlerUser # NoUser

\* C12: after every save, delete or import of a signed-in user the sequence
\* persisted under that user's key is exactly the sequence of the non-standard
\* recipes of the recipe list, in the list's order.
C12_FullRePersist ==
    [][StoreChanged =>
          /\ HandlerUser \in DOMAIN storage'
          /\ storage'[HandlerUser] = SelectSeq(recipes', LAMBDA r : ~r.isStandard)
      ]_vars

\* a second import of the signed-in user has been persisted after the first
C12_Witness ==
    /\ user # NoUser
    /\ lastCall.op = "importSettles"
    /\ lastCall.text = "resolved"
    /\ Len(recipes) = Len(standardRecipes) + 2
    /\ Len(getUserRecipes(user, storage)) = 2
    /\ getUserRecipes(user, storage)[2] = selectedRecipe

\* C13: whenever no user is signed in the recipe list is exactly the standard
\* recipes, also when an import started before the sign-out completes after it.
C13_SignedOutListIsStandard == user = NoUser => recipes = standardRecipes

\* C14: when a parse request fails nothing is applied (recipe list, persisted
\* sets, selected recipe and view are unchanged), the importer shows an error
\* message and its loading flag is false again.
C14_FailedImportAppliesNothing ==
    [][(lastCall'.op = "importSettles" /\ lastCall'.text = "rejected")
       => /\ UNCHANGED appVars
          /\ error' # NoError
          /\ isLoading' = FALSE
      ]_vars

\* every recipe of the list, of the persisted sets and the edited copy
AllRecipes ==
    { recipes[i] : i \in 1..Len(recipes) } \cup
    UNION { { storage[u][i] : i \in 1..Len(storage[u]) } : u \in DOMAIN storage } \cup
    (IF editedRecipe = Null THEN {} ELSE {editedRecipe})

\* C15: every recipe in the list, in the persisted sets and in the edited copy
\* has totalFlourGrams > 0.
C15_FlourPositive == \A r \in AllRecipes : JSGtZero(r.totalFlourGrams)

\* C16: every ingredient percentage of every recipe in the list, in the
\* persisted sets and in the edited copy is >= 0.
C16_PercentagesNonNegative ==
    \A r \in AllRecipes :
        \A i \in 1..Len(r.ingredients) : ~JSLtZero(percentageOf(r.ingredients[i]))

\* C17: the recipes of the list have pairwise distinct ids.
C17_DistinctIds ==
    \A i, j \in 1..Len(recipes) : recipes[i].id = recipes[j].id => i = j

\* C18: a save by a signed-in user of a user-owned recipe whose id is in the
\* list replaces exactly one entry, the one with that id, by the edited copy,
\* leaves the other entries and the order as they are, and persists the result.
C18_SaveReplacesOneEntry ==
    [][(/\ lastCall'.op = "handleSaveRecipe"
        /\ user # NoUser
        /\ ~lastCall'.data.isStandard
        /\ \E i \in 1..Len(recipes) : recipes[i].id = lastCall'.data.id)
       => /\ \E i \in 1..Len(recipes) :
                 /\ recipes[i].id = lastCall'.data.id
                 /\ recipes' = [recipes EXCEPT ![i] = lastCall'.data]
          /\ getUserRecipes(user, storage') = storedRecipes(userRecipesOf(recipes'))
      ]_vars

\* C19: an import of the signed-in user whose response arrives after that
\* user's save or delete does not undo it: the list after the import is the
\* list the save or delete left plus the new recipe, and so is the persisted set.
C19_ImportKeepsLaterChanges ==
    [][(/\ lastCall.op \in {"handleSaveRecipe", "handleDeleteRecipe"}
        /\ lastCall'.op = "importSettles"
        /\ lastCall'.text = "resolved"
        /\ user # NoUser
        /\ pending[lastCall'.index].user = user)
       => /\ recipes' = Append(recipes, recipes'[Len(recipes')])
          /\ getUserRecipes(user, storage') = storedRecipes(userRecipesOf(recipes'))
      ]_vars

\* C20: a nutrition result that gets displayed was requested for the recipe
\* the view shows: when the recipe shown has changed while the request was in
\* flight, the result is ignored and what is displayed stays as it is.
C20_NutritionForShownRecipe ==
    [][(/\ lastCall'.op = "nutritionSettles"
        /\ lastCall'.text = "resolved"
        /\ nutritionPending[lastCall'.index].shown # selectedRecipe)
       => nutrition' = nutrition
      ]_vars

\* a recipe is opened in the recipe view: selected in the library, or
\* imported for a signed-in user
Opens ==
    \/ lastCall'.op = "handleSelectRecipe"
    \/ /\ lastCall'.op = "importSettles"
       /\ lastCall'.text = "resolved"
       /\ pending[lastCall'.index].user # NoUser

\* C21: when a recipe is opened in the recipe view, the edited copy has the
\* recipe's id, name, description and ingredients; if the percentages sum to
\* more than 0 its total dough weight is 1000 g, if they sum to 0 it is an exact
\* copy; the recipe stays in the list as it is, and selecting changes no entry.
C21_OpenRescalesCopy ==
    [][Opens =>
          /\ editedRecipe'.id = selectedRecipe'.id
          /\ editedRecipe'.name = selectedRecipe'.name
          /\ editedRecipe'.description = selectedRecipe'.description
          /\ editedRecipe'.ingredients = selectedRecipe'.ingredients
          /\ JSGtZero(sumPercentages(selectedRecipe'.ingredients))
                 => totalDoughWeight(editedRecipe') = Num(1000)
          /\ sumPercentages(selectedRecipe'.ingredients) = Num(0)
                 => editedRecipe' = selectedRecipe'
          /\ \E i \in 1..Len(recipes') : recipes'[i] = selectedRecipe'
          /\ lastCall'.op = "handleSelectRecipe" => recipes' = recipes
      ]_vars

\* a user's recipe kept with 1000 g of flour has been selected and is shown
\* with the flour of 1000 g of dough
C21_Witness ==
    /\ lastCall.op = "handleSelectRecipe"
    /\ view = "recipe"
    /\ ~selectedRecipe.isStandard
    /\ selectedRecipe.totalFlourGrams = Num(1000)
    /\ selectedRecipe.ingredients = FlourAndWater
    /\ editedRecipe.totalFlourGrams = Rat(4000, 7)
    /\ totalDoughWeight(editedRecipe) = Num(1000)

====
